---- MODULE Spec2Model ----
(***************************************************************************)
(* ESP32 BLE Typist (pro(beta).cpp): the playback engine typeLikeHuman,    *)
(* the cooperative wait coopDelay and the HTTP handlers that the           *)
(* dispatcher (server.handleClient) runs at the engine's yield points.     *)
(*                                                                         *)
(* The sketch is single threaded.  A handler runs only inside a call of    *)
(* server.handleClient(); handleType runs typeLikeHuman in-line, so a      *)
(* session started from a handleClient call made inside an earlier         *)
(* session's loop is a nested call: `stack` is the call stack of           *)
(* typeLikeHuman activations, the last element being the running one.      *)
(* The BLE link is the environment: it connects and disconnects at any     *)
(* time.                                                                   *)
(***************************************************************************)
EXTENDS Integers, Sequences, FiniteSets, TLC

VARIABLES
    cfg,            \* the runtime configuration globals (lines 35-58)
    typingActive,   \* volatile bool typingActive (line 61)
    paused,         \* volatile bool paused (line 62)
    typedChars,     \* volatile unsigned long typedChars (line 63)
    connected,      \* bleKeyboard.isConnected()
    stack,          \* activations of typeLikeHuman, innermost last
    resp,           \* the HTTP response sent by the step just taken, if any
    out,            \* what the step just taken sent to the sink, if anything
    klog,           \* keystrokeLog, logHead and logCount (lines 67-69)
    millis          \* millis(), read by the timed specification only: the
                    \* others let every wait last any time

vars == <<cfg, typingActive, paused, typedChars, connected, stack, resp, out,
          klog, millis>>

----------------------------------------------------------------------------
(* Bounds of the model *)

\* deepest nesting of typeLikeHuman activations explored
MaxDepth == 2

\* longest raw text given to the preprocessing
MaxLen == 4

\* capacity of the keystroke log explored (1024 in the source; the ring
\* arithmetic is the same for every capacity)
MAX_LOG_ENTRIES == 3

\* most entries written to the keystroke log
MaxAppends == 7

\* the timed specification: the last value of millis(), the longest wait,
\* the longest text (all in model units: one unit is one delay(1)) and
\* the per-character time baseMs
MaxTime == 10

MaxMs == 4

MaxChars == 2

BaseMs == 3

\* longest text of the specification of the chunk length
MaxText == 6

----------------------------------------------------------------------------
(* Characters.  A String is a sequence of one-character strings. *)

LF == "\n"
CR == "\r"
SP == " "
TAB == "\t"

Lower == {"a", "b"}
Upper == {"A", "B"}

\* toupper on the letters of the model
ToUpper(ch) == CASE ch = "a" -> "A" [] ch = "b" -> "B" [] OTHER -> ch

isupper(ch) == ch \in Upper

\* isspace of <ctype.h>, on the characters of the model
isspace(ch) == ch \in {SP, TAB, LF, CR}

\* bool alnum = ((c>='a'&&c<='z')||(c>='A'&&c<='Z')||(c>='0'&&c<='9'))
alnum(ch) == ch \in Lower \cup Upper

\* Arduino random(min, max): min when min >= max, else a value of min..max-1
Random(lo, hi) == IF lo >= hi THEN {lo} ELSE lo..(hi - 1)

clampInt(v, a, b) == IF v < a THEN a ELSE IF v > b THEN b ELSE v

----------------------------------------------------------------------------
(* Text preprocessing *)

RECURSIVE preprocessFrom(_, _, _)
\* the loop of preprocessText from index i on (newlineMode 1 or 2)
preprocessFrom(in, i, mode) ==
    IF i > Len(in) THEN <<>>
    ELSE LET c == in[i]
             rest == preprocessFrom(in, i + 1, mode)
         IN  IF c = CR \/ c = LF
             THEN IF mode = 1 THEN <<SP>> \o rest ELSE rest
             ELSE <<c>> \o rest

RECURSIVE codeFilterFrom(_, _, _)
\* the code-mode filter loop from index i on, with the startOfLine flag
codeFilterFrom(raw, i, startOfLine) ==
    IF i > Len(raw) THEN <<>>
    ELSE LET c == raw[i]
         IN  IF c = CR
             THEN IF i + 1 <= Len(raw) /\ raw[i + 1] = LF
                  THEN <<LF>> \o codeFilterFrom(raw, i + 2, TRUE)
                  ELSE <<LF>> \o codeFilterFrom(raw, i + 1, TRUE)
             ELSE IF c = LF
             THEN <<LF>> \o codeFilterFrom(raw, i + 1, TRUE)
             ELSE IF startOfLine /\ isspace(c)
             THEN codeFilterFrom(raw, i + 1, TRUE)
             ELSE <<c>> \o codeFilterFrom(raw, i + 1, FALSE)

\* the filter with startOfLine initially false
codeFilterNoStart(raw) == codeFilterFrom(raw, 1, FALSE)

codeFilter(raw) == codeFilterFrom(raw, 1, TRUE)

\* preprocessText without the early return of line 368
preprocessTextNoKeep(in, mode) == preprocessFrom(in, 1, mode)

preprocessText(in, mode) == IF mode = 0 THEN in ELSE preprocessFrom(in, 1, mode)

\* the text a session types, from the raw body and the configuration read
\* at the top of typeLikeHuman
sessionTextNeverCode(raw, c) == preprocessText(raw, c.newlineMode)

sessionText(raw, c) ==
    IF ~c.codeMode THEN preprocessText(raw, c.newlineMode) ELSE codeFilter(raw)

----------------------------------------------------------------------------
(* Configuration *)

DefaultConfig ==
    [ configuredWPM |-> 100, strictWPM |-> FALSE, jitterStrengthPct |-> 12,
      thinkingSpaceChance |-> 0, mistakePercent |-> 3, enableTypos |-> TRUE,
      enableLongPauses |-> TRUE, longPausePercent |-> 5,
      longPauseMinMs |-> 600, longPauseMaxMs |-> 1200, newlineMode |-> 1,
      extraPunctPause |-> TRUE, codeMode |-> FALSE, typoMaxChars |-> 1,
      maxSimultaneousErrors |-> 1, holdMinMs |-> 18, holdMaxMs |-> 100,
      enableKeystrokeLogging |-> FALSE ]

\* server.hasArg(name) on a request, a function from argument names to the
\* integers their values parse to
hasArg(req, name) == name \in DOMAIN req

setInt(c, req, name, field, lo, hi) ==
    IF hasArg(req, name) THEN [c EXCEPT ![field] = clampInt(req[name], lo, hi)]
    ELSE c

setBool(c, req, name, field) ==
    IF hasArg(req, name) THEN [c EXCEPT ![field] = (req[name] # 0)] ELSE c

\* handleConfig without the repair of line 704
swapHoldNever(c) == c

swapHold(c) ==
    IF c.holdMinMs > c.holdMaxMs
    THEN [c EXCEPT !.holdMinMs = c.holdMaxMs, !.holdMaxMs = c.holdMinMs]
    ELSE c

swapLongPause(c) ==
    IF c.longPauseMinMs > c.longPauseMaxMs
    THEN [c EXCEPT !.longPauseMinMs = c.longPauseMaxMs,
                   !.longPauseMaxMs = c.longPauseMinMs]
    ELSE c

\* the configuration after handleConfig has applied request req
applyConfig(c, req) ==
    LET c1  == setInt(c, req, "wpm", "configuredWPM", 10, 300)
        c2  == setBool(c1, req, "strict", "strictWPM")
        c3  == setInt(c2, req, "jitter", "jitterStrengthPct", 5, 45)
        c4  == setInt(c3, req, "think", "thinkingSpaceChance", 0, 100)
        c5  == setBool(c4, req, "typos", "enableTypos")
        c6  == setBool(c5, req, "lpen", "enableLongPauses")
        c7  == setInt(c6, req, "lpc", "longPausePercent", 0, 100)
        c8  == setInt(c7, req, "lpmin", "longPauseMinMs", 50, 20000)
        c9  == setInt(c8, req, "lpmax", "longPauseMaxMs", 50, 30000)
        c10 == setInt(c9, req, "nl", "newlineMode", 0, 2)
        c11 == setBool(c10, req, "codemode", "codeMode")
        c12 == setInt(c11, req, "typoMax", "typoMaxChars", 1, 6)
        c13 == setInt(c12, req, "mistake", "mistakePercent", 0, 100)
        c14 == setInt(c13, req, "holdMin", "holdMinMs", 2, 1000)
        c15 == setInt(c14, req, "holdMax", "holdMaxMs", 2, 2000)
    IN  swapLongPause(swapHold(c15))

ArgNames ==
    {"wpm", "strict", "jitter", "think", "typos", "lpen", "lpc", "lpmin",
     "lpmax", "nl", "codemode", "typoMax", "mistake", "holdMin", "holdMax"}

\* bool changed of handleConfig: set by every argument that is present
configChanged(req) == \E a \in ArgNames : hasArg(req, a)

----------------------------------------------------------------------------
(* Inputs the dispatcher delivers *)

\* request bodies of POST /type
Bodies == { <<>>, <<"a", "b">>, <<LF>> }

\* query strings of GET /config: three full profiles, typos switched off
\* alone, and an empty query
ConfigRequests ==
    { [wpm |-> 600, strict |-> 0, jitter |-> 12, typos |-> 1, typoMax |-> 3,
       mistake |-> 100, nl |-> 1, think |-> 2, codemode |-> 0],
      [wpm |-> 110, strict |-> 0, jitter |-> 2, typos |-> 0, typoMax |-> 1,
       mistake |-> 0, nl |-> 2, think |-> 0, codemode |-> 0],
      [wpm |-> 110, strict |-> 1, jitter |-> 2, typos |-> 1, typoMax |-> 1,
       mistake |-> 100, nl |-> 0, think |-> 0, codemode |-> 1],
      [typos |-> 0],
      [a \in {} |-> 0] }

----------------------------------------------------------------------------
(* The keystroke log *)

\* lines 67-69: the array of empty Strings, logHead and logCount.  The
\* field hist records history and is read by no action: the entries
\* written, oldest first.
EmptyLog ==
    [ buf |-> [i \in 0..(MAX_LOG_ENTRIES - 1) |-> <<>>], head |-> 0,
      count |-> 0, hist |-> <<>> ]

\* lines 360-363, c being the configuration and s the entry
logKeystroke(c, l, s) ==
    IF ~c.enableKeystrokeLogging THEN l
    ELSE [l EXCEPT !.buf[l.head] = s,
                   !.head = (l.head + 1) % MAX_LOG_ENTRIES,
                   !.count = IF @ < MAX_LOG_ENTRIES THEN @ + 1 ELSE @,
                   !.hist = Append(@, s)]

\* handleLog reading from slot 0
logStartAtZero(l) == 0

\* int start of line 735
logStart(l) == (l.head - l.count + MAX_LOG_ENTRIES) % MAX_LOG_ENTRIES

\* lines 736-739: the entries handleLog sends, in the order it sends them
LogDump(l) ==
    [i \in 1..l.count |-> l.buf[(logStart(l) + (i - 1)) % MAX_LOG_ENTRIES]]

----------------------------------------------------------------------------
(* Activations of typeLikeHuman *)

\* One emission to the output sink: kind "char" (lines 493, 601), "decoy"
\* (a character of the wrong chunk, line 400), "bs" (sendBackspace, line
\* 480) or "fix" (a corrected character, line 485).
Emission(kind, ch) == [k |-> kind, c |-> ch]

NoEmission == Emission("none", "")

\* The activation created by the call typeLikeHuman(body) in handleType.
\* The fields from sink on record history and are read by no action:
\*   sink       the text the activation's emissions have left in the sink
\*   nEmit      the emissions of the activation
\*   nCorrect   those of them that sent a character of the text in its
\*              place (lines 485, 493, 601)
\*   nDecoy, nBs  the decoys and backspaces of its latest mistake chunk
\*   stopped    handleStop ran while it was the running activation
\*   broke      it left the loop at the connection check
\*   nested     handleType began another activation from inside it
\*   snap       the configuration when it set typingActive
\*   chanceZero mistakePercent was 0 at each beginTypo it evaluated
\*   typosOff   enableTypos was false at each beginTypo it evaluated
NewFrame(body) ==
    [ pc |-> "enter", ret |-> "none", raw |-> body, text |-> <<>>,
      code |-> FALSE, strict |-> FALSE, i |-> 0, c |-> "", len |-> 0,
      wrong |-> <<>>, k |-> 0, b |-> 0, r |-> 0, mistakesCurrently |-> 0,
      sink |-> <<>>, nEmit |-> 0, nCorrect |-> 0, nDecoy |-> 0, nBs |-> 0,
      stopped |-> FALSE, broke |-> FALSE, nested |-> FALSE,
      snap |-> DefaultConfig, chanceZero |-> TRUE, typosOff |-> TRUE ]

Depth == Len(stack)
Top == stack[Depth]
SetTop(f) == [stack EXCEPT ![Depth] = f]
Pop == SubSeq(stack, 1, Depth - 1)
At(label) == Depth > 0 /\ Top.pc = label

\* the history fields of f after it has sent e to the sink
Sent(f, e) ==
    [f EXCEPT !.sink = IF e.k = "bs" THEN SubSeq(@, 1, Len(@) - 1)
                       ELSE Append(@, e.c),
              !.nEmit = @ + 1,
              !.nCorrect = IF e.k \in {"char", "fix"} THEN @ + 1 ELSE @,
              !.nDecoy = IF e.k = "decoy" THEN @ + 1 ELSE @,
              !.nBs = IF e.k = "bs" THEN @ + 1 ELSE @]

\* coopDelay(ms) called from the activation f, returning to label ret
CallDelay(f, ret) == [f EXCEPT !.pc = "wait", !.ret = ret]

\* a response: the request it answers, the status code, for /type the
\* body.length() the request carried, and for /log the entries sent
Response(req, code, n) == [req |-> req, code |-> code, n |-> n, body |-> <<>>]

\* no response is sent by the step
NoResponse == Response("none", 0, 0)

\* a step of the top activation that serves no request: it leaves the top
\* activation as f, sends e to the sink and leaves the keystroke log as l
StepLog(f, e, l) ==
    /\ stack' = SetTop(IF e = NoEmission THEN f ELSE Sent(f, e))
    /\ out' = e
    /\ resp' = NoResponse
    /\ klog' = l
    /\ UNCHANGED millis

\* such a step that does not call logKeystroke
Step(f, e) == StepLog(f, e, klog)

----------------------------------------------------------------------------
(* HTTP handlers.  S is the call stack at the moment of the handleClient   *)
(* call, with the caller's position already moved past the call.           *)

\* the status handleType answers with (lines 711-715)
startStatusEmptyFirst(body) ==
    IF Len(body) = 0 THEN 400
    ELSE IF typingActive THEN 409
    ELSE IF ~connected THEN 503 ELSE 200

startStatus(body) ==
    IF typingActive THEN 409
    ELSE IF Len(body) = 0 THEN 400
    ELSE IF ~connected THEN 503 ELSE 200

MarkNested(S) ==
    IF Len(S) = 0 THEN S ELSE [S EXCEPT ![Len(S)].nested = TRUE]

handleType(S, body) ==
    LET code == startStatus(body)
    IN  /\ resp' = Response("type", code, Len(body))
        /\ IF code = 200
           THEN /\ Len(S) < MaxDepth
                /\ paused' = FALSE
                /\ stack' = Append(MarkNested(S), NewFrame(body))
           ELSE /\ stack' = S
                /\ UNCHANGED paused
        /\ out' = NoEmission
        /\ UNCHANGED <<cfg, typingActive, typedChars, connected, klog, millis>>

MarkStopped(S) ==
    IF Len(S) = 0 THEN S ELSE [S EXCEPT ![Len(S)].stopped = TRUE]

\* the value handleStop leaves in paused
stopKeepsPaused == paused

stopPaused == FALSE

handleStop(S) ==
    /\ typingActive' = FALSE
    /\ paused' = stopPaused
    /\ resp' = Response("stop", 200, 0)
    /\ stack' = MarkStopped(S)
    /\ out' = NoEmission
    /\ UNCHANGED <<cfg, typedChars, connected, klog, millis>>

\* the early return of handlePause (line 727)
pauseNeverRejected == FALSE

pauseRejected == ~typingActive

handlePause(S) ==
    /\ IF pauseRejected
       THEN /\ resp' = Response("pause", 409, 0)
            /\ UNCHANGED paused
       ELSE /\ paused' = ~paused
            /\ resp' = Response("pause", 200, 0)
    /\ stack' = S
    /\ out' = NoEmission
    /\ UNCHANGED <<cfg, typingActive, typedChars, connected, klog, millis>>

handleConfig(S, req) ==
    /\ cfg' = applyConfig(cfg, req)
    /\ resp' = Response("config", IF configChanged(req) THEN 200 ELSE 400, 0)
    /\ stack' = S
    /\ out' = NoEmission
    /\ UNCHANGED <<typingActive, paused, typedChars, connected, klog, millis>>

\* one call of server.handleClient(): no request pending, or one request
\* routed to its handler
handleClient(S) ==
    \/ /\ stack' = S
       /\ resp' = NoResponse
       /\ out' = NoEmission
       /\ UNCHANGED <<cfg, typingActive, paused, typedChars, connected, klog, millis>>
    \/ \E body \in Bodies : handleType(S, body)
    \/ handleStop(S)
    \/ handlePause(S)
    \/ \E req \in ConfigRequests : handleConfig(S, req)

----------------------------------------------------------------------------
(* typeLikeHuman, one action per stretch of code between two yield points  *)

N(f) == Len(f.text)

\* lines 409-434 (559-575 in code mode): the checks and the set-up before
\* the loop
Enter ==
    /\ At("enter")
    /\ LET f == Top
           text == sessionText(f.raw, cfg)
       IN  IF ~connected \/ Len(text) = 0
           THEN /\ stack' = Pop
                /\ UNCHANGED <<typingActive, paused, typedChars>>
           ELSE /\ typingActive' = TRUE
                /\ paused' = FALSE
                /\ typedChars' = 0
                /\ stack' = SetTop([f EXCEPT !.pc = "loopTop", !.text = text,
                                             !.code = cfg.codeMode,
                                             !.strict = cfg.strictWPM,
                                             !.i = 0, !.mistakesCurrently = 0,
                                             !.snap = cfg])
    /\ resp' = NoResponse
    /\ out' = NoEmission
    /\ UNCHANGED <<cfg, connected, klog, millis>>

\* for(i...; i<N && typingActive; ...) of lines 436 and 577
loopCond(f) == f.i < N(f) /\ typingActive

\* lines 436-437: the loop condition and the connection check
LoopTop ==
    /\ At("loopTop")
    /\ LET f == Top
       IN  Step(IF ~loopCond(f) THEN [f EXCEPT !.pc = "finish"]
                ELSE IF ~connected
                THEN [f EXCEPT !.pc = "finish", !.broke = TRUE]
                ELSE [f EXCEPT !.pc = "pauseWait"], NoEmission)
    /\ UNCHANGED <<cfg, typingActive, paused, typedChars, connected>>

\* the loop of line 440 without its test
PauseWaitNoExit ==
    /\ At("pauseWait")
    /\ handleClient(stack)

\* line 440: while(paused && typingActive){ server.handleClient(); ... }
PauseWait ==
    /\ At("pauseWait")
    /\ IF paused /\ typingActive
       THEN handleClient(stack)
       ELSE /\ Step([Top EXCEPT !.pc = "iter"], NoEmission)
            /\ UNCHANGED <<cfg, typingActive, paused, typedChars, connected>>

\* lines 458-464 (597-612): the character at the cursor, the code-mode
\* newline branch and the long pause before a space
Iter ==
    /\ At("iter")
    /\ LET f == Top
           c == f.text[f.i + 1]
           g == [f EXCEPT !.c = c]
       IN  IF f.code /\ c = LF
           THEN Step(CallDelay(g, "nlDone"), Emission("char", LF))
           ELSE \E d \in Random(0, 100) :
                  IF ~f.strict /\ cfg.enableLongPauses /\ c = SP
                     /\ d < cfg.longPausePercent
                  THEN Step(CallDelay(g, "afterLongPause"), NoEmission)
                  ELSE Step([g EXCEPT !.pc = "decide"], NoEmission)
    /\ UNCHANGED <<cfg, typingActive, paused, typedChars, connected>>

\* lines 603-604: typedChars = i+1; continue;
NlDone ==
    /\ At("nlDone")
    /\ typedChars' = Top.i + 1
    /\ Step([Top EXCEPT !.pc = "advance"], NoEmission)
    /\ UNCHANGED <<cfg, typingActive, paused, connected>>

\* "if(!typingActive) break;" after a coopDelay (lines 463, 479, 506)
AfterDelay(label, next) ==
    /\ At(label)
    /\ Step([Top EXCEPT !.pc = IF ~typingActive THEN "finish" ELSE next],
            NoEmission)
    /\ UNCHANGED <<cfg, typingActive, paused, typedChars, connected>>

AfterLongPause == AfterDelay("afterLongPause", "decide")

\* beginTypo without the test of enableTypos
beginTypoIgnoresSwitch(f, d) ==
    /\ ~f.strict
    /\ d < cfg.mistakePercent
    /\ alnum(f.c)
    /\ f.mistakesCurrently < cfg.maxSimultaneousErrors

\* bool beginTypo of lines 467 and 615, d being the value of random(0,100)
beginTypo(f, d) ==
    /\ ~f.strict
    /\ cfg.enableTypos
    /\ d < cfg.mistakePercent
    /\ alnum(f.c)
    /\ f.mistakesCurrently < cfg.maxSimultaneousErrors

\* lines 470-472: the length of the chunk, rv being random(0, typoMaxChars-1)
chunkLen(f, rv) ==
    LET len == clampInt(1 + rv, 1, cfg.typoMaxChars)
    IN  IF N(f) - f.i < len THEN N(f) - f.i ELSE len

\* createMistakeChunk: len letters 'a' + random(0,26), each made upper case
\* when the correct character is upper case and random(0,2) is not 0
createMistakeChunk(correctChar, len) ==
    LET letters == Lower \cup
                   (IF isupper(correctChar) THEN {ToUpper(ch) : ch \in Lower}
                    ELSE {})
    IN  [1..len -> letters]

\* lines 466-476 and 493-502: begin a mistake chunk, or send the character
Decide ==
    /\ At("decide")
    /\ LET f == [Top EXCEPT !.chanceZero = @ /\ cfg.mistakePercent = 0,
                            !.typosOff = @ /\ ~cfg.enableTypos]
       IN  \E d \in Random(0, 100) :
             IF beginTypo(f, d)
             THEN \E rv \in Random(0, cfg.typoMaxChars - 1) :
                  \E wrong \in createMistakeChunk(f.c, chunkLen(f, rv)) :
                    Step([f EXCEPT !.pc = "decoy", !.len = chunkLen(f, rv),
                                   !.wrong = wrong, !.k = 0, !.b = 0,
                                   !.r = 0, !.nDecoy = 0, !.nBs = 0],
                         NoEmission)
             ELSE Step(CallDelay(f, "think"), Emission("char", f.c))
    /\ UNCHANGED <<cfg, typingActive, paused, typedChars, connected>>

\* for(k=0; k<seq.length() && typingActive; ++k) of sendCharsWithHold
decoyCond(f) == f.k < f.len /\ typingActive

\* lines 399-405 and 477-479: the wrong chunk with its log entries, then
\* the MISTAKE_SENT entry and the pause before the backspaces
Decoy ==
    /\ At("decoy")
    /\ LET f == Top
       IN  IF decoyCond(f)
           THEN StepLog(CallDelay([f EXCEPT !.k = @ + 1], "decoy"),
                        Emission("decoy", f.wrong[f.k + 1]),
                        logKeystroke(cfg, klog, <<"CHAR", f.wrong[f.k + 1]>>))
           ELSE StepLog(CallDelay(f, "afterDecoyWait"), NoEmission,
                        logKeystroke(cfg, klog, <<"MISTAKE_SENT", f.wrong>>))
    /\ UNCHANGED <<cfg, typingActive, paused, typedChars, connected>>

AfterDecoyWait == AfterDelay("afterDecoyWait", "bs")

\* for(b=0; b<len && typingActive; ++b) of lines 480 and 624
bsCondOneMore(f) == f.b <= f.len /\ typingActive

bsCond(f) == f.b < f.len /\ typingActive

\* lines 480-481: the backspaces, then the MISTAKE_BS entry
Backspace ==
    /\ At("bs")
    /\ LET f == Top
       IN  IF bsCond(f)
           THEN Step(CallDelay([f EXCEPT !.b = @ + 1], "bs"),
                     Emission("bs", ""))
           ELSE StepLog([f EXCEPT !.pc = "fix"], NoEmission,
                        logKeystroke(cfg, klog, <<"MISTAKE_BS", f.len>>))
    /\ UNCHANGED <<cfg, typingActive, paused, typedChars, connected>>

\* for(r=0; r<len && typingActive; ++r) of lines 483 and 626
fixCond(f) == f.r < f.len /\ typingActive

\* i += (len - 1) of lines 490 and 627
cursorNotAdvanced(f) == f.i

cursorAfterChunk(f) == f.i + (f.len - 1)

\* lines 483-491: the correct characters, then the cursor and the counter
Fix ==
    /\ At("fix")
    /\ LET f == Top
       IN  IF fixCond(f)
           THEN Step(CallDelay([f EXCEPT !.r = @ + 1], "fix"),
                     Emission("fix", f.text[f.i + f.r + 1]))
           ELSE Step([f EXCEPT !.pc = "think", !.i = cursorAfterChunk(f),
                               !.mistakesCurrently = @ + 1, !.wrong = <<>>,
                               !.len = 0, !.k = 0, !.b = 0, !.r = 0],
                     NoEmission)
    /\ UNCHANGED <<cfg, typingActive, paused, typedChars, connected>>

\* lines 505-507: the thinking pause after a space
Think ==
    /\ At("think")
    /\ LET f == Top
       IN  \E t \in Random(0, cfg.thinkingSpaceChance) :
             IF ~f.strict /\ f.c = SP /\ cfg.thinkingSpaceChance > 0 /\ t = 0
             THEN Step(CallDelay(f, "afterThink"), NoEmission)
             ELSE Step([f EXCEPT !.pc = "setTyped"], NoEmission)
    /\ UNCHANGED <<cfg, typingActive, paused, typedChars, connected>>

AfterThink == AfterDelay("afterThink", "setTyped")

\* line 509: typedChars = i+1
SetTyped ==
    /\ At("setTyped")
    /\ typedChars' = Top.i + 1
    /\ Step([Top EXCEPT !.pc = "tailYield"], NoEmission)
    /\ UNCHANGED <<cfg, typingActive, paused, connected>>

\* line 511: server.handleClient()
TailYield ==
    /\ At("tailYield")
    /\ handleClient(SetTop([Top EXCEPT !.pc = "advance"]))

\* ++i of the for statement (lines 436, 577), at the end of the body and
\* at the continue of line 604
Advance ==
    /\ At("advance")
    /\ Step([Top EXCEPT !.pc = "loopTop", !.i = @ + 1, !.c = ""], NoEmission)
    /\ UNCHANGED <<cfg, typingActive, paused, typedChars, connected>>

\* the value line 514 leaves in typingActive
finishKeepsActive == typingActive

finishActive == FALSE

\* the value line 514 leaves in paused
finishKeepsPaused == paused

finishPaused == FALSE

\* line 514: typingActive = false; paused = false
Finish ==
    /\ At("finish")
    /\ typingActive' = finishActive
    /\ paused' = finishPaused
    /\ Step([Top EXCEPT !.pc = "settle"], NoEmission)
    /\ UNCHANGED <<cfg, typedChars, connected>>

\* lines 515-516: coopDelay(120 + random(0,300)); return.  typingActive is
\* false, so coopDelay leaves its loop at the first test.
Settle ==
    /\ At("settle")
    /\ stack' = Pop
    /\ resp' = NoResponse
    /\ out' = NoEmission
    /\ UNCHANGED <<cfg, typingActive, paused, typedChars, connected, klog, millis>>

----------------------------------------------------------------------------
(* coopDelay *)

\* lines 339-340: the loop test, then one handleClient call
Wait ==
    /\ At("wait")
    /\ \/ /\ typingActive
          /\ handleClient(SetTop([Top EXCEPT !.pc = "waitPaused"]))
       \/ \* typingActive is false, or ms have elapsed
          /\ Step([Top EXCEPT !.pc = Top.ret, !.ret = "none"], NoEmission)
          /\ UNCHANGED <<cfg, typingActive, paused, typedChars, connected>>

\* coopDelay without the loop of lines 342-346
WaitPausedSkipped ==
    /\ At("waitPaused")
    /\ Step([Top EXCEPT !.pc = "wait"], NoEmission)
    /\ UNCHANGED <<cfg, typingActive, paused, typedChars, connected>>

\* lines 342-346: while(paused && typingActive){ server.handleClient(); ... }
WaitPaused ==
    /\ At("waitPaused")
    /\ IF paused /\ typingActive
       THEN handleClient(stack)
       ELSE /\ Step([Top EXCEPT !.pc = "wait"], NoEmission)
            /\ UNCHANGED <<cfg, typingActive, paused, typedChars, connected>>

----------------------------------------------------------------------------
(* loop() and the environment *)

\* void loop(){ server.handleClient(); }
Loop ==
    /\ Depth = 0
    /\ handleClient(stack)

\* the BLE host connects or disconnects
LinkChange ==
    /\ connected' = ~connected
    /\ resp' = NoResponse
    /\ out' = NoEmission
    /\ UNCHANGED <<cfg, typingActive, paused, typedChars, stack, klog, millis>>

Init ==
    /\ cfg = DefaultConfig
    /\ typingActive = FALSE
    /\ paused = FALSE
    /\ typedChars = 0
    /\ connected = FALSE
    /\ stack = <<>>
    /\ resp = NoResponse
    /\ out = NoEmission
    /\ klog = EmptyLog
    /\ millis = 0

Next ==
    \/ Loop
    \/ Enter
    \/ LoopTop
    \/ PauseWait
    \/ Iter
    \/ NlDone
    \/ AfterLongPause
    \/ Decide
    \/ Decoy
    \/ AfterDecoyWait
    \/ Backspace
    \/ Fix
    \/ Think
    \/ AfterThink
    \/ SetTyped
    \/ TailYield
    \/ Advance
    \/ Finish
    \/ Settle
    \/ Wait
    \/ WaitPaused
    \/ LinkChange

Spec == Init /\ [][Next]_vars

----------------------------------------------------------------------------
(* The preprocessing alone: typeLikeHuman is given every raw text of up to *)
(* MaxLen characters under every newlineMode and codeMode, and computes    *)
(* the text it would type.                                                 *)

Alphabet == {"a", SP, TAB, CR, LF}

Strings == UNION { [1..n -> Alphabet] : n \in 0..MaxLen }

PreInit ==
    /\ cfg \in { [DefaultConfig EXCEPT !.newlineMode = m, !.codeMode = cm] :
                    m \in 0..2, cm \in BOOLEAN }
    /\ typingActive = FALSE
    /\ paused = FALSE
    /\ typedChars = 0
    /\ connected = TRUE
    /\ stack \in { <<NewFrame(body)>> : body \in Strings }
    /\ resp = NoResponse
    /\ out = NoEmission
    /\ klog = EmptyLog
    /\ millis = 0

\* lines 416-418 and 521-559: the text computed from rawText
Preprocess ==
    /\ At("enter")
    /\ connected
    /\ Step([Top EXCEPT !.pc = "preprocessed",
                        !.text = sessionText(Top.raw, cfg),
                        !.code = cfg.codeMode], NoEmission)
    /\ UNCHANGED <<cfg, typingActive, paused, typedChars, connected>>

PreNext == Preprocess

PreSpec == PreInit /\ [][PreNext]_vars

----------------------------------------------------------------------------
(* The configuration alone: loop() serves GET /config requests that carry  *)
(* one integer argument, or both ends of a range, with values below, in    *)
(* and above the ranges handleConfig clamps to.                            *)

\* the values server.arg(name).toInt() yields
ArgValues == {-1, 1, 60, 70000}

\* the integer arguments of handleConfig
IntArgs == {"wpm", "jitter", "mistake", "typoMax", "nl",
            "holdMin", "holdMax", "lpmin", "lpmax"}

RangeArgs == { <<"holdMin", "holdMax">>, <<"lpmin", "lpmax">> }

CfgRequests ==
    { [a \in {n} |-> v] : n \in IntArgs, v \in ArgValues }
    \cup { [a \in {p[1], p[2]} |-> IF a = p[1] THEN v ELSE w] :
               p \in RangeArgs, v \in ArgValues, w \in ArgValues }
    \cup { [a \in {} |-> 0] }

CfgInit == Init

CfgNext ==
    /\ Depth = 0
    /\ \E req \in CfgRequests : handleConfig(stack, req)

CfgSpec == CfgInit /\ [][CfgNext]_vars

----------------------------------------------------------------------------
(* The keystroke log alone: logKeystroke is called with any entries and    *)
(* loop() serves GET /log.  Nothing in the sketch writes                   *)
(* enableKeystrokeLogging: its initialiser (line 58) decides whether the   *)
(* build logs, so both builds are initial states.                          *)

LogEntries == { <<"CHAR", "a">>, <<"MISTAKE_BS", 1>> }

\* handleLog (lines 732-741)
handleLog(S) ==
    /\ resp' = [Response("log", 200, 0) EXCEPT !.body = LogDump(klog)]
    /\ stack' = S
    /\ out' = NoEmission
    /\ UNCHANGED <<cfg, typingActive, paused, typedChars, connected, klog, millis>>

LogInit ==
    /\ cfg \in { [DefaultConfig EXCEPT !.enableKeystrokeLogging = e] :
                    e \in BOOLEAN }
    /\ typingActive = FALSE
    /\ paused = FALSE
    /\ typedChars = 0
    /\ connected = FALSE
    /\ stack = <<>>
    /\ resp = NoResponse
    /\ out = NoEmission
    /\ klog = EmptyLog
    /\ millis = 0

\* one call logKeystroke(s)
LogAppend ==
    /\ Len(klog.hist) < MaxAppends
    /\ \E s \in LogEntries : klog' = logKeystroke(cfg, klog, s)
    /\ resp' = NoResponse
    /\ UNCHANGED <<cfg, typingActive, paused, typedChars, connected, stack, out,
                   millis>>

\* loop() dispatching GET /log
LogRead ==
    /\ Depth = 0
    /\ handleLog(stack)

LogNext ==
    \/ LogAppend
    \/ LogRead

LogSpec == LogInit /\ [][LogNext]_vars

----------------------------------------------------------------------------
(* Time.  A session with typos and long pauses switched off (GET           *)
(* /config?typos=0&lpen=0), so that each iteration is: the loop test, the  *)
(* pause wait, the timing computation, sendChar and one coopDelay.  millis *)
(* advances by one at each delay(1); handlers take no time.  The           *)
(* dispatcher delivers Pause and Stop.                                     *)

TimedConfig ==
    [DefaultConfig EXCEPT !.enableTypos = FALSE, !.enableLongPauses = FALSE]

\* the delays coopDelay is called with at line 502
Delays == 3..MaxMs

\* The activation of typeLikeHuman on a text of n characters, begun at time
\* t, with the locals of the coopDelay it calls (ms, start).  The fields
\* pausedInWait and pausedInSession record history and are read by no
\* action: the time that has passed with paused set since the coopDelay
\* call, and since startMs.
TimedFrame(n, t) ==
    [ pc |-> "loopTop", N |-> n, i |-> 0, startMs |-> t, elapsed |-> 0,
      error |-> 0, ms |-> 0, start |-> 0, stopped |-> FALSE,
      pausedInWait |-> 0, pausedInSession |-> 0 ]

TimedInit ==
    /\ cfg = TimedConfig
    /\ typingActive = FALSE
    /\ paused = FALSE
    /\ typedChars = 0
    /\ connected = TRUE
    /\ stack = <<>>
    /\ resp = NoResponse
    /\ out = NoEmission
    /\ klog = EmptyLog
    /\ millis = 0

\* a step of the timed activation that serves no request and takes no time
TimedStep(f, e) ==
    /\ stack' = SetTop(f)
    /\ out' = e
    /\ resp' = NoResponse
    /\ UNCHANGED <<klog, millis>>

\* delay(1): a step of the timed activation during which time passes
Tick(f) ==
    /\ millis < MaxTime
    /\ millis' = millis + 1
    /\ stack' = SetTop(f)
    /\ out' = NoEmission
    /\ resp' = NoResponse
    /\ UNCHANGED <<cfg, typingActive, paused, typedChars, connected, klog>>

\* the time delay(1) adds to a record of paused time
PausedTime == IF paused THEN 1 ELSE 0

\* server.handleClient() with no request, a Stop or a Pause toggle
TimedClient(S) ==
    \/ /\ stack' = S
       /\ resp' = NoResponse
       /\ out' = NoEmission
       /\ UNCHANGED <<cfg, typingActive, paused, typedChars, connected, klog,
                      millis>>
    \/ handleStop(S)
    \/ handlePause(S)

\* loop() serving an accepted POST /type, up to line 434
TimedStart ==
    /\ Depth = 0
    /\ \E n \in 1..MaxChars :
          /\ startStatus([j \in 1..n |-> "a"]) = 200
          /\ stack' = <<TimedFrame(n, millis)>>
          /\ resp' = Response("type", 200, n)
    /\ typingActive' = TRUE
    /\ paused' = FALSE
    /\ typedChars' = 0
    /\ out' = NoEmission
    /\ UNCHANGED <<cfg, connected, klog, millis>>

\* lines 436-437
TimedLoopTop ==
    /\ At("loopTop")
    /\ LET f == Top
       IN  TimedStep([f EXCEPT !.pc = IF f.i < f.N /\ typingActive /\ connected
                                      THEN "pauseWait" ELSE "finish"],
                     NoEmission)
    /\ UNCHANGED <<cfg, typingActive, paused, typedChars, connected>>

\* line 440: the loop test and server.handleClient()
TimedPauseWait ==
    /\ At("pauseWait")
    /\ IF paused /\ typingActive
       THEN TimedClient(SetTop([Top EXCEPT !.pc = "pauseTick"]))
       ELSE /\ TimedStep([Top EXCEPT !.pc = "elapsed"], NoEmission)
            /\ UNCHANGED <<cfg, typingActive, paused, typedChars, connected>>

\* line 440: delay(1)
TimedPauseTick ==
    /\ At("pauseTick")
    /\ Tick([Top EXCEPT !.pc = "pauseWait",
                        !.pausedInSession = @ + PausedTime])

\* lines 442-445: elapsed and error
TimedElapsed ==
    /\ At("elapsed")
    /\ LET f == Top
           elapsed == millis - f.startMs
           idealElapsed == f.i * BaseMs
       IN  TimedStep([f EXCEPT !.pc = "send", !.elapsed = elapsed,
                               !.error = elapsed - idealElapsed], NoEmission)
    /\ UNCHANGED <<cfg, typingActive, paused, typedChars, connected>>

\* lines 493-502 and 338: sendChar(c), then the call of coopDelay
TimedSend ==
    /\ At("send")
    /\ \E d \in Delays :
          TimedStep([Top EXCEPT !.pc = "wait", !.ms = d, !.start = millis,
                                !.pausedInWait = 0], Emission("char", "a"))
    /\ UNCHANGED <<cfg, typingActive, paused, typedChars, connected>>

\* line 339: the loop test of coopDelay, and line 340: server.handleClient()
TimedWait ==
    /\ At("wait")
    /\ IF typingActive /\ millis - Top.start < Top.ms
       THEN TimedClient(SetTop([Top EXCEPT !.pc = "waitPaused"]))
       ELSE /\ TimedStep([Top EXCEPT !.pc = "afterWait"], NoEmission)
            /\ UNCHANGED <<cfg, typingActive, paused, typedChars, connected>>

\* lines 342-343: the loop test and server.handleClient()
TimedWaitPaused ==
    /\ At("waitPaused")
    /\ IF paused /\ typingActive
       THEN TimedClient(SetTop([Top EXCEPT !.pc = "waitPausedTick"]))
       ELSE /\ TimedStep([Top EXCEPT !.pc = "waitTick"], NoEmission)
            /\ UNCHANGED <<cfg, typingActive, paused, typedChars, connected>>

\* line 344: delay(1) inside the pause loop
TimedWaitPausedTick ==
    /\ At("waitPausedTick")
    /\ Tick([Top EXCEPT !.pc = "waitPaused",
                        !.pausedInWait = @ + PausedTime,
                        !.pausedInSession = @ + PausedTime])

\* line 347: delay(1)
TimedWaitTick ==
    /\ At("waitTick")
    /\ Tick([Top EXCEPT !.pc = "wait",
                        !.pausedInWait = @ + PausedTime,
                        !.pausedInSession = @ + PausedTime])

\* line 509, after coopDelay has returned: typedChars = i+1
TimedSetTyped ==
    /\ At("afterWait")
    /\ typedChars' = Top.i + 1
    /\ TimedStep([Top EXCEPT !.pc = "tailYield", !.ms = 0, !.start = 0,
                             !.pausedInWait = 0], NoEmission)
    /\ UNCHANGED <<cfg, typingActive, paused, connected>>

\* line 511: server.handleClient()
TimedTailYield ==
    /\ At("tailYield")
    /\ TimedClient(SetTop([Top EXCEPT !.pc = "advance"]))

\* ++i of line 436
TimedAdvance ==
    /\ At("advance")
    /\ TimedStep([Top EXCEPT !.pc = "loopTop", !.i = @ + 1], NoEmission)
    /\ UNCHANGED <<cfg, typingActive, paused, typedChars, connected>>

\* lines 514-516: the flags are cleared, coopDelay returns at its first
\* test, typeLikeHuman returns
TimedFinish ==
    /\ At("finish")
    /\ typingActive' = finishActive
    /\ paused' = finishPaused
    /\ stack' = Pop
    /\ out' = NoEmission
    /\ resp' = NoResponse
    /\ UNCHANGED <<cfg, typedChars, connected, klog, millis>>

TimedNext ==
    \/ TimedStart
    \/ TimedLoopTop
    \/ TimedPauseWait
    \/ TimedPauseTick
    \/ TimedElapsed
    \/ TimedSend
    \/ TimedWait
    \/ TimedWaitPaused
    \/ TimedWaitPausedTick
    \/ TimedWaitTick
    \/ TimedSetTyped
    \/ TimedTailYield
    \/ TimedAdvance
    \/ TimedFinish

TimedSpec == TimedInit /\ [][TimedNext]_vars

----------------------------------------------------------------------------
(* The length of a mistake chunk: a session on a text of letters has       *)
(* reached line 466 at any cursor position, with typos certain (GET        *)
(* /config?mistake=100) and every typoMaxChars handleConfig can store.     *)

\* the activation at line 466 with its cursor at i in a text of n letters,
\* begun under the configuration c
FrameAtDecide(n, i, c) ==
    LET text == [j \in 1..n |-> "a"]
    IN  [NewFrame(text) EXCEPT !.pc = "decide", !.text = text, !.i = i,
                               !.c = "a", !.sink = SubSeq(text, 1, i),
                               !.nEmit = i, !.nCorrect = i, !.snap = c]

ChunkInit ==
    /\ cfg \in { [DefaultConfig EXCEPT !.mistakePercent = 100,
                                       !.typoMaxChars = m] : m \in 1..6 }
    /\ typingActive = TRUE
    /\ paused = FALSE
    /\ typedChars \in 0..(MaxText - 1)
    /\ connected = TRUE
    /\ stack \in { <<FrameAtDecide(n, typedChars, cfg)>> :
                      n \in (typedChars + 1)..MaxText }
    /\ resp = NoResponse
    /\ out = NoEmission
    /\ klog = EmptyLog
    /\ millis = 0

ChunkNext == Decide

ChunkSpec == ChunkInit /\ [][ChunkNext]_vars

----------------------------------------------------------------------------
(* The build that logs: enableKeystrokeLogging initialised to true (line   *)
(* 58), under each configuration a GET /config request of the model        *)
(* leaves.  The sessions run one at a time under that configuration,       *)
(* until the log has been filled and its oldest entry overwritten.         *)

LoggedInit ==
    /\ cfg \in { [applyConfig(DefaultConfig, req)
                     EXCEPT !.enableKeystrokeLogging = TRUE] :
                  req \in ConfigRequests }
    /\ typingActive = FALSE
    /\ paused = FALSE
    /\ typedChars = 0
    /\ connected = FALSE
    /\ stack = <<>>
    /\ resp = NoResponse
    /\ out = NoEmission
    /\ klog = EmptyLog
    /\ millis = 0

LoggedNext ==
    /\ Next
    /\ cfg' = cfg
    /\ Depth' <= 1
    /\ Len(klog'.hist) <= MAX_LOG_ENTRIES + 1

LoggedSpec == LoggedInit /\ [][LoggedNext]_vars

----------------------------------------------------------------------------
(* Progress.  The sketch runs without stopping, so a step of the running   *)
(* session is eventually taken; every iteration of the loop of coopDelay   *)
(* calls delay(1), so millis() - start reaches ms and the test of line     *)
(* 339 eventually fails.  The sessions run under each configuration a GET  *)
(* /config request of the model leaves, unchanged while they run.          *)

LiveInit ==
    /\ cfg \in { applyConfig(DefaultConfig, req) : req \in ConfigRequests }
    /\ typingActive = FALSE
    /\ paused = FALSE
    /\ typedChars = 0
    /\ connected = FALSE
    /\ stack = <<>>
    /\ resp = NoResponse
    /\ out = NoEmission
    /\ klog = EmptyLog
    /\ millis = 0

LiveNext ==
    /\ Next
    /\ cfg' = cfg

\* a step of the sketch while a session is on the call stack
Run ==
    /\ Depth > 0
    /\ LiveNext
    /\ connected' = connected

\* coopDelay returns: the test of line 339 fails
WaitElapsed ==
    /\ At("wait")
    /\ LiveNext
    /\ Depth' = Depth
    /\ Top'.pc = Top.ret

LiveSpec ==
    /\ LiveInit
    /\ [][LiveNext]_vars
    /\ WF_vars(Run)
    /\ SF_vars(WaitElapsed)

----------------------------------------------------------------------------
(* Properties *)

ChunkLabels == {"decoy", "afterDecoyWait", "bs", "fix"}

\* the activation f is inside a mistake chunk (lines 468-491), its waits
\* included
InChunk(f) ==
    \/ f.pc \in ChunkLabels
    \/ f.pc \in {"wait", "waitPaused"} /\ f.ret \in ChunkLabels

\* the step just taken was a handler answering request kind req
Answered(req) == resp'.req = req

\* a handler step leaves the session of the top activation as it was: the
\* flags but for those in `except`, the emitted count, the cursor, the text
\* and the number of activations
SessionUntouched ==
    /\ typedChars' = typedChars
    /\ cfg' = cfg
    /\ out' = NoEmission
    /\ Depth' = Depth
    /\ Depth > 0 => /\ Top'.i = Top.i
                    /\ Top'.text = Top.text
                    /\ Top'.sink = Top.sink
                    /\ Top'.nEmit = Top.nEmit

\* C1: once handleStop has run during an activation, that activation sends
\* nothing more to the sink: no step of a stopped activation emits.
C1_NoOutputAfterStop ==
    out # NoEmission => ~Top.stopped

C3_CompletedText ==
    \A k \in 1..Depth :
        LET f == stack[k]
        IN  /\ (f.pc = "loopTop" /\ ~f.stopped)
                   => f.sink = SubSeq(f.text, 1, f.i)
            /\ (f.pc = "settle" /\ ~f.stopped /\ ~f.broke)
                   => /\ f.sink = f.text
                      /\ f.chanceZero => f.nEmit = N(f)

\* a session of "ab" has completed after a mistake chunk
C3_Witness ==
    /\ Depth > 0
    /\ Top.pc = "settle"
    /\ ~Top.stopped
    /\ ~Top.broke
    /\ Top.mistakesCurrently = 1
    /\ Top.sink = <<"a", "b">>

\* C4: at most one session is active: every activation below the running
\* one has been stopped, and an activation from inside which a new session
\* was begun neither emits nor is active once it runs again.
C4_OneSession ==
    /\ \A k \in 1..(Depth - 1) : stack[k].stopped /\ stack[k].nested
    /\ Depth > 0 /\ Top.nested => ~typingActive /\ out = NoEmission

\* a session begun from inside a stopped session's loop is emitting
C4_Witness ==
    /\ Depth = 2
    /\ typingActive
    /\ out # NoEmission

\* C5: a Start handled while typingActive is answered 409 and changes
\* nothing of the active session.
C5_BusyStart ==
    [][(Answered("type") /\ typingActive)
          => /\ resp'.code = 409
             /\ typingActive'
             /\ paused' = paused
             /\ SessionUntouched]_vars

\* a Start was answered Busy while the session was paused
C5_Witness ==
    /\ resp = Response("type", 409, 2)
    /\ typingActive
    /\ paused

\* C6: handleStop leaves typingActive and paused false in every state and
\* changes nothing else of the session (so a second Stop changes nothing);
\* typingActive then stays false until an accepted Start runs, and a Start
\* handled while it is false, with a body and a connected sink, is
\* answered 200 and begins an activation.
C6_StopThenStart ==
    [][/\ Answered("stop")
          => /\ ~typingActive' /\ ~paused'
             /\ SessionUntouched
             /\ (~typingActive /\ ~paused)
                    => (typingActive' = typingActive /\ paused' = paused)
       /\ (~typingActive /\ typingActive') => At("enter")
       /\ (Answered("type") /\ ~typingActive /\ resp'.n > 0 /\ connected)
          => /\ resp'.code = 200
             /\ Depth' = Depth + 1
             /\ Top'.pc = "enter"]_vars

\* a Start is accepted from inside the loop of a session stopped in the
\* middle of a mistake chunk
C6_Witness ==
    /\ Depth = 2
    /\ resp.req = "type"
    /\ resp.code = 200
    /\ stack[1].stopped
    /\ stack[1].nDecoy > stack[1].nBs

\* C7: a Pause toggle handled while typingActive is false is answered 409
\* and changes nothing; handled while it is true it flips paused and
\* changes nothing else.
C7_PauseToggle ==
    [][Answered("pause")
          => /\ typingActive' = typingActive
             /\ SessionUntouched
             /\ IF ~typingActive
                THEN resp'.code = 409 /\ paused' = paused
                ELSE resp'.code = 200 /\ paused' = ~paused]_vars

\* a Pause toggle has resumed a session paused inside a mistake chunk
C7_Witness ==
    /\ resp = Response("pause", 200, 0)
    /\ typingActive
    /\ ~paused
    /\ InChunk(Top)

\* C8: a Start is answered 409 only when a session is active, 503 only
\* when the sink is disconnected, 400 only when the body is empty, and 200
\* when none of these holds; a rejected Start changes nothing; an accepted
\* one (its sink still connected when typeLikeHuman begins, the step that
\* changes the stack of an activation at its entry) makes the engine
\* Running with cursor 0 and paused clear.
C8_StartStatus ==
    [][/\ Answered("type")
          => /\ resp'.code = 409 => typingActive
             /\ resp'.code = 400 => resp'.n = 0
             /\ resp'.code = 503 => ~connected
             /\ resp'.code = 200
                    <=> (~typingActive /\ resp'.n > 0 /\ connected)
             /\ resp'.code # 200
                    => /\ SessionUntouched
                       /\ typingActive' = typingActive
                       /\ paused' = paused
       /\ (At("enter") /\ connected /\ stack' # stack)
          => /\ typingActive'
             /\ ~paused'
             /\ Depth' = Depth
             /\ Top'.pc = "loopTop"
             /\ Top'.i = 0]_vars

\* C9: a Start whose body is not empty but whose preprocessed text is
\* empty is not answered 200, and the activation it would begin emits
\* nothing and leaves typingActive false.
C9_EmptyAfterPreprocessing ==
    /\ (resp.req = "type" /\ resp.code = 200)
           => sessionText(Top.raw, cfg) # <<>>
    /\ (At("enter") /\ sessionText(Top.raw, cfg) = <<>>)
           => ~typingActive /\ Top.nEmit = 0

\* the configuration values the loop body reads when it decides on a
\* mistake chunk (lines 467-470)
typoParams(c) ==
    <<c.enableTypos, c.mistakePercent, c.typoMaxChars, c.maxSimultaneousErrors>>

\* C10: the parameters a session uses are those of its start: whenever the
\* loop decides on a mistake chunk, the values it reads are the values the
\* configuration had when the session began.
C10_ConfigFrozen ==
    At("decide") => typoParams(cfg) = typoParams(Top.snap)

\* C11: nothing is sent to the sink while the link is down: every step that
\* emits a character or a backspace is taken with the sink connected.
C11_NoOutputWhileDisconnected ==
    out # NoEmission => connected

\* the running activation has computed its text from its raw text
Preprocessed(code) ==
    /\ At("preprocessed")
    /\ Top.code = code

isNewline(ch) == ch = CR \/ ch = LF

\* C12: outside code mode, newlineMode keep gives the input; space gives a
\* text of the input's length with a space at exactly the positions of the
\* input's CRs and LFs and the input's character elsewhere; remove gives
\* the input's characters other than CR and LF, in order.
C12_NewlineModes ==
    Preprocessed(FALSE) =>
        LET in == Top.raw
            text == Top.text
        IN  /\ cfg.newlineMode = 0 => text = in
            /\ cfg.newlineMode = 1 =>
                   /\ Len(text) = Len(in)
                   /\ \A p \in 1..Len(in) :
                          text[p] = IF isNewline(in[p]) THEN SP ELSE in[p]
            /\ cfg.newlineMode = 2 =>
                   text = SelectSeq(in, LAMBDA ch : ~isNewline(ch))

\* a CRLF pair has become two spaces under newlineMode space
C12_Witness ==
    /\ Preprocessed(FALSE)
    /\ cfg.newlineMode = 1
    /\ Top.raw = <<"a", CR, LF, "a">>
    /\ Top.text = <<"a", SP, SP, "a">>

RECURSIVE LinesFrom(_, _, _)
\* the lines of s from index i on, cur being the line read so far: a line
\* ends at a CRLF pair, at a lone CR or at an LF
LinesFrom(s, i, cur) ==
    IF i > Len(s) THEN <<cur>>
    ELSE IF s[i] = CR /\ i < Len(s) /\ s[i + 1] = LF
    THEN <<cur>> \o LinesFrom(s, i + 2, <<>>)
    ELSE IF isNewline(s[i])
    THEN <<cur>> \o LinesFrom(s, i + 1, <<>>)
    ELSE LinesFrom(s, i + 1, Append(cur, s[i]))

Lines(s) == LinesFrom(s, 1, <<>>)

\* the number of the line that position p of the text s lies on
LineOf(s, p) == 1 + Cardinality({ q \in 1..(p - 1) : s[q] = LF })

\* position p of the text s is the first of a line
LineStart(s, p) == p = 1 \/ s[p - 1] = LF

\* the line without its leading whitespace
StripLeading(line) ==
    LET solid == { j \in 1..Len(line) : ~isspace(line[j]) }
    IN  IF solid = {} THEN <<>>
        ELSE SubSeq(line, CHOOSE j \in solid : \A h \in solid : j <= h,
                    Len(line))

\* C13 as stated: the code-mode text has a whitespace character at the
\* start of a line only where the line of the raw text was empty.
C13_NoLeadingWhitespace ==
    Preprocessed(TRUE) =>
        \A p \in 1..Len(Top.text) :
            (LineStart(Top.text, p) /\ isspace(Top.text[p]))
                => Lines(Top.raw)[LineOf(Top.text, p)] = <<>>

\* C13 amended: the code-mode text has a whitespace character at the start
\* of a line only where the line of the raw text was empty or held nothing
\* but whitespace, and that character is the line's own line-feed.
C13_LeadingWhitespaceIsLineFeed ==
    Preprocessed(TRUE) =>
        \A p \in 1..Len(Top.text) :
            (LineStart(Top.text, p) /\ isspace(Top.text[p]))
                => /\ Top.text[p] = LF
                   /\ StripLeading(Lines(Top.raw)[LineOf(Top.text, p)]) = <<>>

\* a line of one space and a line indented by a tab have been filtered
C13_Witness ==
    /\ Preprocessed(TRUE)
    /\ Top.raw = <<SP, LF, TAB, "a">>
    /\ Top.text = <<LF, "a">>

\* C14: the code-mode text holds no CR, has as many lines as the raw text
\* (one line-feed for each CRLF pair, lone CR and LF), each line being the
\* raw line from its first non-whitespace character on, and is the same
\* under every newlineMode.
C14_CodeModeNewlines ==
    Preprocessed(TRUE) =>
        LET raw == Top.raw
            text == Top.text
        IN  /\ \A p \in 1..Len(text) : text[p] # CR
            /\ Len(Lines(text)) = Len(Lines(raw))
            /\ \A n \in 1..Len(Lines(raw)) :
                   Lines(text)[n] = StripLeading(Lines(raw)[n])
            /\ \A m \in 0..2 :
                   sessionText(raw, [cfg EXCEPT !.newlineMode = m]) = text

\* a CRLF pair and a lone CR have each become one line-feed, under
\* newlineMode remove
C14_Witness ==
    /\ Preprocessed(TRUE)
    /\ cfg.newlineMode = 2
    /\ Top.raw = <<"a", CR, LF, CR>>
    /\ Top.text = <<"a", LF, LF>>

\* C15: whatever GET /config requests have been served, the stored
\* configuration is valid: every clamped field is in its range and neither
\* range is inverted.
C15_ConfigValid ==
    /\ cfg.configuredWPM \in 10..300
    /\ cfg.jitterStrengthPct \in 5..45
    /\ cfg.mistakePercent \in 0..100
    /\ cfg.typoMaxChars \in 1..6
    /\ cfg.newlineMode \in 0..2
    /\ cfg.holdMinMs <= cfg.holdMaxMs
    /\ cfg.longPauseMinMs <= cfg.longPauseMaxMs

\* both ranges have been repaired: the stored minima are the default
\* maxima, which no request of the model carries
C15_Witness ==
    /\ resp.req = "config"
    /\ cfg.holdMinMs = 100
    /\ cfg.holdMaxMs = 1000
    /\ cfg.longPauseMinMs = 1200
    /\ cfg.longPauseMaxMs = 20000
    /\ cfg.configuredWPM = 300
    /\ cfg.newlineMode = 0

\* C16: a GET /config request is answered "Config updated" (200) exactly
\* when the stored configuration after it differs from the one before.
C16_ChangeReported ==
    [][Answered("config") => (resp'.code = 200 <=> cfg' # cfg)]_vars

\* the last n elements of the sequence s (all of it when it is shorter)
LastOf(s, n) == SubSeq(s, IF Len(s) > n THEN Len(s) - n + 1 ELSE 1, Len(s))

\* C17: with logging enabled, after any number of entries written, what
\* handleLog sends is the last min(n, capacity) entries written, oldest
\* first; logCount is at most the capacity and logHead is an index of the
\* array.
C17_LogDumpIsTail ==
    cfg.enableKeystrokeLogging =>
        /\ LogDump(klog) = LastOf(klog.hist, MAX_LOG_ENTRIES)
        /\ resp.req = "log" => resp.body = LastOf(klog.hist, MAX_LOG_ENTRIES)
        /\ klog.count <= MAX_LOG_ENTRIES
        /\ klog.count <= Len(klog.hist)
        /\ klog.head \in 0..(MAX_LOG_ENTRIES - 1)

\* the log has wrapped exactly twice and is read: the entries sent are the
\* second round, two different entries among them
C17_Witness ==
    /\ cfg.enableKeystrokeLogging
    /\ Len(klog.hist) = 2 * MAX_LOG_ENTRIES
    /\ klog.head = 0
    /\ resp.req = "log"
    /\ Len(resp.body) = MAX_LOG_ENTRIES
    /\ resp.body[1] # resp.body[2]
    /\ klog.hist[1] # resp.body[1]

\* C18: a coopDelay(ms) that returns with the session still active has
\* lasted at least ms of time during which paused was clear: the time it
\* spent paused does not count.
C18_PausedTimeNotCounted ==
    (At("afterWait") /\ typingActive)
        => (millis - Top.start) - Top.pausedInWait >= Top.ms

\* C19: the elapsed time of the drift correction leaves out the time the
\* session spent paused: the error computed at each iteration is the one
\* computed from the time that passed with paused clear.
C19_DriftExcludesPause ==
    At("send")
        => Top.error = (millis - Top.startMs - Top.pausedInSession)
                           - Top.i * BaseMs

\* C20: nothing is sent to the sink while paused is set: no step that emits
\* a character or a backspace is taken with the pause flag set, wherever
\* the Pause toggle was served.
C20_NoOutputWhilePaused ==
    out # NoEmission => ~paused

\* a Pause toggle served inside a mistake chunk, after its first decoy, has
\* set the flag; the session is held in the pause loop of coopDelay
C20_Witness ==
    /\ resp = Response("pause", 200, 0)
    /\ paused
    /\ typingActive
    /\ At("waitPaused")
    /\ Top.ret = "decoy"
    /\ Top.nDecoy = 1

\* C21: the count of mistakes in flight is 0 whenever no chunk is in
\* progress: it is raised when a chunk begins and lowered when it ends, so
\* that a later character of the session can begin a new chunk.
C21_MistakeCountZeroOutsideChunk ==
    \A n \in 1..Depth :
        ~InChunk(stack[n]) => stack[n].mistakesCurrently = 0

\* the smaller of two numbers
Min(a, b) == IF a < b THEN a ELSE b

\* the lengths line 470-472 can give the chunk of the activation f
PossibleLens(f) ==
    { chunkLen(f, rv) : rv \in Random(0, cfg.typoMaxChars - 1) }

\* C22: the length of a chunk is at least 1 and at most typoMaxChars and
\* the number of characters from the cursor on, and every length of that
\* range can be chosen.
C22_ChunkLengthWholeRange ==
    /\ At("decoy")
          => Top.len \in 1..Min(cfg.typoMaxChars, N(Top) - Top.i)
    /\ At("decide")
          => PossibleLens(Top) = 1..Min(cfg.typoMaxChars, N(Top) - Top.i)

\* the step begins a mistake chunk in the running activation
ChunkBegins ==
    /\ At("decide")
    /\ Depth' = Depth
    /\ Top'.pc = "decoy"

\* C23: a chunk begins only where typos are enabled, the session is not
\* strict, the character at the cursor is alphanumeric and the count of
\* mistakes is below maxSimultaneousErrors; a session begun strict, or
\* one that found typos disabled at every character, sends no decoy and
\* no backspace.
C23_ChunkOnlyWhenAllowed ==
    [][/\ ChunkBegins
          => /\ cfg.enableTypos
             /\ ~Top.strict
             /\ ~Top.snap.strictWPM
             /\ alnum(Top.text[Top.i + 1])
             /\ Top.mistakesCurrently < cfg.maxSimultaneousErrors
       /\ out'.k \in {"decoy", "bs"}
          => /\ ~Top'.snap.strictWPM
             /\ ~Top'.typosOff
       /\ \A n \in 1..Depth' :
             (stack'[n].snap.strictWPM \/ stack'[n].typosOff)
                 => /\ stack'[n].nDecoy = 0
                    /\ stack'[n].nBs = 0
                    /\ ~InChunk(stack'[n])]_vars

\* a strict session has typed "ab" to the end with typos enabled and a
\* mistake chance of 100, without a chunk
C23_Witness ==
    /\ At("settle")
    /\ Top.strict
    /\ ~Top.stopped
    /\ ~Top.broke
    /\ cfg.enableTypos
    /\ cfg.mistakePercent = 100
    /\ Top.sink = <<"a", "b">>
    /\ Top.nEmit = 2

Idle ==
    /\ Depth = 0
    /\ ~typingActive
    /\ ~paused

\* C25: a session on the call stack is followed by Idle, provided paused
\* is clear again and again; and the cursor of an activation never moves
\* back, each end of an iteration moving it forward by one.
C25_SessionsEnd ==
    /\ ([]<>(~paused)) => ((Depth > 0) ~> Idle)
    /\ [][(Depth > 0 /\ Depth' = Depth)
             => /\ Top'.i >= Top.i
                /\ (At("advance") /\ stack' # stack) => Top'.i = Top.i + 1]_vars

\* a session of two characters has run to its end and returned
C25_Witness ==
    /\ Idle
    /\ typedChars = 2
    /\ connected
    /\ resp = NoResponse

\* the step is line 509 or line 603 of the running activation
SetsTyped ==
    /\ At("setTyped") \/ At("nlDone")
    /\ Depth' = Depth
    /\ Top'.pc # Top.pc

\* C26: typedChars is written only at the start of a session, to 0, and at
\* lines 509 and 603, to a value that is not less than before, not more
\* than the number of characters of the text the session has sent in
\* their place, and not more than the length of the text.
C26_TypedCountsSentCharacters ==
    [][/\ SetsTyped
          => /\ typedChars' >= typedChars
             /\ typedChars' <= N(Top')
             /\ typedChars' <= Top'.nCorrect
       /\ typedChars' # typedChars
          => \/ SetsTyped
             \/ At("enter") /\ typedChars' = 0]_vars

\* C27: in every state paused is set only while typingActive is set, so
\* the engine is never paused while idle, and the step that begins a
\* session (lines 421-423, 559-561) leaves typingActive set and paused
\* clear.
C27_PausedOnlyWhileActive ==
    /\ [](paused => typingActive)
    /\ [][(At("enter") /\ Depth' = Depth /\ stack' # stack)
             => (typingActive' /\ ~paused')]_vars

C27_Witness ==
    /\ At("pauseWait")
    /\ resp = Response("stop", 200, 0)
    /\ ~typingActive
    /\ ~paused

====
